---- MODULE Spec2Model ----
(***************************************************************************)
(* The visitor core of full-moon (src/src/visitors.rs): the two drivers    *)
(* Visitor::visit_ast and VisitorMut::visit_ast, the container impls of    *)
(* Visit / VisitMut (Vec, Option, pair, Cow, Box) and the hook surfaces    *)
(* generated by create_visitor!.  The token arena, TokenReference, the     *)
(* node kinds' field lists and the parser live outside visitors.rs; they   *)
(* are modelled from the specification (sections 3, 4.1-4.3, 8).           *)
(***************************************************************************)
EXTENDS Integers, Sequences, FiniteSets, TLC

\* ------------------------------------------------------------------ bounds
\* Statements in a program, nested ones included.
MaxStmts == 2
\* Names declared in a program, over all its local assignments.
MaxNames == 3

\* ------------------------------------------------------------ value shapes
\* Every traversable value has one shape: t is the Rust type constructor,
\* kind the node kind or (owned token) token kind, text an owned token's
\* text, n an arena index (borrowed token) or payload id (borrowed Cow),
\* items the fields / elements.
Val(t, kind, text, n, items) ==
    [t |-> t, kind |-> kind, text |-> text, n |-> n, items |-> items]

\* TokenReference::Borrowed { arena, index }
Borrowed(index) == Val("tok", "", "", index, <<>>)
\* TokenReference::Owned(token)
Owned(kind, text) == Val("tok", kind, text, -1, <<>>)
Node(kind, fields) == Val("node", kind, "", -1, fields)
VecOf(items) == Val("vec", "", "", -1, items)
SomeOf(v) == Val("opt", "", "", -1, <<v>>)
NoneOf == Val("opt", "", "", -1, <<>>)
PairOf(a, b) == Val("pair", "", "", -1, <<a, b>>)
BoxOf(v) == Val("box", "", "", -1, <<v>>)
\* Cow::Borrowed(&payload): the payload lives in the shared store.
CowBorrowed(id) == Val("cow", "", "", id, <<>>)
\* Cow::Owned(v)
CowOwned(v) == Val("cow", "", "", -1, <<v>>)

Token(kind, text) == [kind |-> kind, text |-> text]

\* ------------------------------------------------------- programs (inputs)
NamePool == <<"x", "y", "z", "a", "b", "c", "d", "e", "f", "g", "h", "i">>
NumPool == <<"1", "2", "3", "4">>

LocalStmt(n) == [k |-> "local", n |-> n, body |-> <<>>]
DoStmt(body) == [k |-> "do", n |-> 0, body |-> body]

RECURSIVE Forests(_)
\* One statement holding exactly n statements, itself included.
Trees(n) ==
    IF n = 1
    THEN {LocalStmt(j) : j \in 1..MaxNames} \cup {DoStmt(<<>>)}
    ELSE {DoStmt(b) : b \in Forests(n - 1)}
\* Statement lists holding exactly n statements, nested ones included.
Forests(n) ==
    IF n = 0
    THEN {<<>>}
    ELSE UNION {{<<t>> \o f : t \in Trees(j), f \in Forests(n - j)} : j \in 1..n}

RECURSIVE NamesIn(_)
\* names declared by a statement list
NamesIn(stmts) ==
    IF stmts = <<>> THEN 0
    ELSE Head(stmts).n + NamesIn(Head(stmts).body) + NamesIn(Tail(stmts))

Programs ==
    {p \in UNION {Forests(n) : n \in 0..MaxStmts} : NamesIn(p) <= MaxNames}

\* ------------------------------------------------------------------ parser
Ws == Token("Whitespace", " ")
Comma == Token("Symbol", ",")

Emit(st, tok) == [st EXCEPT !.toks = Append(@, tok)]

\* items separated by ", ": item, comma, whitespace, item, ...
Punct(items) ==
    IF items = <<>> THEN <<>>
    ELSE [j \in 1..(3 * Len(items) - 2) |->
            IF j % 3 = 1 THEN items[(j + 2) \div 3]
            ELSE IF j % 3 = 2 THEN Comma ELSE Ws]

ExpressionNode(index) ==
    Node("Expression", <<BoxOf(Node("Value", <<Borrowed(index)>>)), NoneOf>>)

\* local n1, n2 = 1, 2
ParseLocal(st, n) ==
    LET base == Len(st.toks)
        names == [k \in 1..n |-> Token("Identifier", NamePool[st.next + k])]
        nums == [k \in 1..n |-> Token("Number", NumPool[k])]
        nameAt(k) == base + 2 + 3 * (k - 1)
        eqAt == base + 3 * n + 1
        numAt(k) == base + 3 * n + 3 + 3 * (k - 1)
        toks == <<Token("Symbol", "local"), Ws>> \o Punct(names)
                    \o <<Ws, Token("Symbol", "="), Ws>> \o Punct(nums)
    IN  [st |-> [st EXCEPT !.toks = @ \o toks, !.next = @ + n],
         val |-> Node("Stmt", <<Node("LocalAssignment",
                    <<Borrowed(base),
                      VecOf([k \in 1..n |-> Borrowed(nameAt(k))]),
                      SomeOf(Borrowed(eqAt)),
                      VecOf([k \in 1..n |-> ExpressionNode(numAt(k))])>>)>>)]

BlockNode(stmts) == Node("Block", <<VecOf(stmts), NoneOf>>)

RECURSIVE ParseStmts(_, _, _, _)
\* do <body> end
ParseDo(st, body) ==
    LET base == Len(st.toks)
        r == ParseStmts(Emit(Emit(st, Token("Symbol", "do")), Ws), body, 1, <<>>)
        st2 == IF body = <<>> THEN r.st ELSE Emit(r.st, Ws)
    IN  [st |-> Emit(st2, Token("Symbol", "end")),
         val |-> Node("Stmt", <<Node("Do",
                    <<Borrowed(base), BlockNode(r.items), Borrowed(Len(st2.toks))>>)>>)]

ParseStmt(st, s) ==
    IF s.k = "local" THEN ParseLocal(st, s.n) ELSE ParseDo(st, s.body)

\* Statements k.. of stmts, written as `s1; s2; s3`: every statement becomes
\* a shared payload that the block holds through Cow::Borrowed, paired with
\* the semicolon that follows it, if any.
ParseStmts(st, stmts, k, items) ==
    IF k > Len(stmts)
    THEN [st |-> st, items |-> items]
    ELSE LET r == ParseStmt(IF k > 1 THEN Emit(st, Ws) ELSE st, stmts[k])
             id == Len(r.st.shared)
             st2 == [r.st EXCEPT !.shared = Append(@, r.val)]
         IN  IF k < Len(stmts)
             THEN ParseStmts(Emit(st2, Token("Symbol", ";")), stmts, k + 1,
                             Append(items, PairOf(CowBorrowed(id),
                                                  SomeOf(Borrowed(Len(st2.toks))))))
             ELSE ParseStmts(st2, stmts, k + 1,
                             Append(items, PairOf(CowBorrowed(id), NoneOf)))

Parse(prog) ==
    LET r == ParseStmts([toks |-> <<>>, shared |-> <<>>, next |-> 0], prog, 1, <<>>)
    IN  [tokens |-> Append(r.st.toks, Token("Eof", "")),
         shared |-> r.st.shared,
         nodes |-> BlockNode(r.items)]

\* ------------------------------------------------------------------- state
VARIABLES
    tokens,   \* ast.tokens: the arena, index i at position i + 1
    shared,   \* payloads that Cow::Borrowed values point to, id i at i + 1
    nodes,    \* ast.nodes: the root block of the tree being visited
    other,    \* a clone of the tree taken before the call
    mode,     \* "visit" (Visitor) or "visit_mut" (VisitorMut)
    vis,      \* what the visitor's overridden hooks do
    pc,       \* "start", "sweep", "descent", "done"; "panicked"
    index,    \* next arena index of the sweep
    stack,    \* pending visit / visit_mut calls: [path, i, t], t the impl
    log,      \* hook invocations so far, in order
    names,    \* LocalVariableVisitor.names
    stopped,  \* the flag of a visitor that stops itself
    calls     \* Len(log) at each call of visit_ast so far

vars == <<tokens, shared, nodes, other, mode, vis, pc, index, stack, log, names,
          stopped, calls>>

\* ----------------------------------------------------------- tree access
\* Field / element k of v; a borrowed Cow derefs to its shared payload.
Child(sh, v, k) == IF v.t = "cow" /\ v.n >= 0 THEN sh[v.n + 1] ELSE v.items[k]

RECURSIVE GetAt(_, _, _)
\* the value at path below v (c is bound to the child, so each step of the
\* path derefs once)
GetAt(sh, v, path) ==
    IF path = <<>> THEN v
    ELSE CHOOSE r \in {GetAt(sh, c, Tail(path)) : c \in {Child(sh, v, Head(path))}} : TRUE

RECURSIVE StoreV(_, _, _, _)
RECURSIVE StoreSh(_, _, _, _)
\* A write of new to the place at path below v.  A place reached through a
\* borrowed Cow lies in the shared payload, so a write to it lands in the
\* store; below an owned Cow it lands in v.
\* v afterwards
StoreV(sh, v, path, new) ==
    IF path = <<>> THEN new
    ELSE IF v.t = "cow" /\ v.n >= 0 THEN v
    ELSE [v EXCEPT !.items[Head(path)] = StoreV(sh, @, Tail(path), new)]
\* the shared payloads afterwards
StoreSh(sh, v, path, new) ==
    IF path = <<>> THEN sh
    ELSE IF v.t = "cow" /\ v.n >= 0
    THEN [StoreSh(sh, sh[v.n + 1], Tail(path), new)
            EXCEPT ![v.n + 1] = StoreV(sh, sh[v.n + 1], Tail(path), new)]
    ELSE StoreSh(sh, v.items[Head(path)], Tail(path), new)
\* [v, sh] afterwards
Store(sh, v, path, new) ==
    [v |-> StoreV(sh, v, path, new), sh |-> StoreSh(sh, v, path, new)]

Arity(v) == IF v.t = "cow" /\ v.n >= 0 THEN 1 ELSE Len(v.items)

RECURSIVE ValidPath(_, _, _)
\* path leads to a value below v
ValidPath(sh, v, path) ==
    \/ path = <<>>
    \/ /\ Head(path) \in 1..Arity(v)
       /\ ValidPath(sh, Child(sh, v, Head(path)), Tail(path))

Min(a, b) == IF a <= b THEN a ELSE b

\* TokenReference deref: a borrowed reference re-reads the arena.
TokenOf(arena, ref) ==
    IF ref.n >= 0 THEN arena[ref.n + 1] ELSE Token(ref.kind, ref.text)

\* ------------------------------------------------------- dispatch surfaces
\* create_visitor!(ast: { visit_name => ast_type, ... })
NodeHook(kind) ==
    CASE kind = "Block" -> "visit_block"
      [] kind = "Do" -> "visit_do"
      [] kind = "Expression" -> "visit_expression"
      [] kind = "LocalAssignment" -> "visit_local_assignment"
      [] kind = "Stmt" -> "visit_stmt"
      [] kind = "Value" -> "visit_value"

\* Mutant: the exit hook is generated under the enter hook's name.
EndHook_AsEnter(kind) == NodeHook(kind)

\* paste: [<$visit_name _end>]
EndHook(kind) == NodeHook(kind) \o "_end"

\* the enter hooks of the node kinds that the modelled programs contain
NodeHooks == {"visit_block", "visit_do", "visit_expression",
              "visit_local_assignment", "visit_stmt", "visit_value"}
EndHooks == {h \o "_end" : h \in NodeHooks}
\* create_visitor!(token: { ... })
TokenHooks == {"visit_eof", "visit_identifier", "visit_multi_line_comment",
               "visit_number", "visit_single_line_comment",
               "visit_string_literal", "visit_symbol", "visit_token",
               "visit_whitespace"}

\* TokenReference::visit: the hook matching the token's kind.
TokenHook(kind) ==
    CASE kind = "Eof" -> "visit_eof"
      [] kind = "Identifier" -> "visit_identifier"
      [] kind = "MultiLineComment" -> "visit_multi_line_comment"
      [] kind = "Number" -> "visit_number"
      [] kind = "SingleLineComment" -> "visit_single_line_comment"
      [] kind = "StringLiteral" -> "visit_string_literal"
      [] kind = "Symbol" -> "visit_symbol"
      [] kind = "Whitespace" -> "visit_whitespace"

\* ---------------------------------------------------------------- visitors
\* A visitor is the set of hooks it overrides; every other hook is the
\* default, an empty body.
NoOverride == [ident |-> FALSE, local |-> "none", block |-> "none"]
Overrides ==
    {NoOverride,
     [ident |-> TRUE, local |-> "none", block |-> "none"],
     [ident |-> TRUE, local |-> "push", block |-> "none"],
     [ident |-> FALSE, local |-> "pushEnd", block |-> "pop"]}

\* A read-only visitor that keeps its own flag: it collects the names of the
\* first local assignment it is shown, sets the flag, and from then on
\* returns from every hook at once.
Stopper == [ident |-> FALSE, local |-> "stop", block |-> "none"]
\* The visitors run by Visitor::visit_ast: the name collector of the
\* documentation (it writes nothing to the tree) and the stopper.
ReadVisitors == {NoOverride, Stopper}

\* The tree a VisitorMut hook leaves in the place it was handed.
HookMut(v, hook, arg) ==
    IF hook = "visit_identifier" /\ v.ident
    THEN Owned("Identifier", "renamed")
    ELSE IF hook = "visit_local_assignment" /\ v.local = "push"
    THEN [arg EXCEPT !.items[2].items = Append(@, Owned("Identifier", "extra"))]
    ELSE IF hook = "visit_local_assignment_end" /\ v.local = "pushEnd"
    THEN [arg EXCEPT !.items[2].items = Append(@, Owned("Identifier", "late"))]
    ELSE IF hook = "visit_block" /\ v.block = "pop" /\ arg.items[1].items # <<>>
    THEN [arg EXCEPT !.items[1].items = SubSeq(@, 1, Len(@) - 1)]
    ELSE arg

\* LocalVariableVisitor::visit_local_assignment:
\*   names.extend(local_assignment.name_list().iter().map(to_string))
NameList(arena, la) ==
    [k \in 1..Len(la.items[2].items) |-> TokenOf(arena, la.items[2].items[k]).text]

HookNames(arena, hook, arg, ns) ==
    IF hook = "visit_local_assignment" THEN ns \o NameList(arena, arg) ELSE ns

\* names after a hook of the read-only visitor: a stopped visitor ignores
\* the call
Collect(hook, arg) ==
    IF stopped THEN names ELSE HookNames(tokens, hook, arg, names)
\* the visitor's flag after the hook
Stops(hook) ==
    stopped \/ (vis.local = "stop" /\ hook = "visit_local_assignment")

\* One hook invocation: the hook, the pass of visit_ast it belongs to, the
\* place of its argument in the tree, the argument as handed over, the token
\* it resolved to then (token hooks), and what the hook left in its place.
Entry(hook, pass, path, arg, tok, out) ==
    [hook |-> hook, pass |-> pass, path |-> path, arg |-> arg, tok |-> tok,
     out |-> out]

NoToken == Token("", "")

\* -------------------------------------------------------------------- Init
Init ==
    \E prog \in Programs :
      \E m \in {"visit", "visit_mut"} :
        \E v \in Overrides \cup ReadVisitors :
          /\ m = "visit" => v \in ReadVisitors
          /\ m = "visit_mut" => v \in Overrides
          /\ LET ast == Parse(prog)
             IN  /\ tokens = ast.tokens
                 /\ shared = ast.shared
                 /\ nodes = ast.nodes
                 /\ other = ast.nodes
          /\ mode = m
          /\ vis = v
          /\ pc = "start"
          /\ index = 0
          /\ stack = <<>>
          /\ log = <<>>
          /\ names = <<>>
          /\ stopped = FALSE
          /\ calls = <<>>

\* ------------------------------------------------------------- stack steps
Top == stack[Len(stack)]
Cur == GetAt(shared, nodes, Top.path)
InDescent(m, t) ==
    /\ pc = "descent"
    /\ mode = m
    /\ stack # <<>>
    /\ Top.t = t

FirstStep(v) == IF v.t = "node" THEN 0 ELSE 1

\* call visit / visit_mut on element k of the value on top
Push(sh, k) ==
    Append([stack EXCEPT ![Len(stack)].i = Top.i + 1],
           [path |-> Top.path \o <<k>>, i |-> FirstStep(Child(sh, Cur, k)),
            t |-> Child(sh, Cur, k).t])

\* Mutant: a return leaves the caller's call as well.
Pop_Two == SubSeq(stack, 1, Len(stack) - 2)

\* the call on top returns
Pop == SubSeq(stack, 1, Len(stack) - 1)

\* Mutant: visit_ast goes on after the visit of the root has returned.
Returned_Never(s) == "descent"

Returned(s) == IF s = <<>> THEN "done" ELSE "descent"

\* ------------------------------------------------- Visitor (read-only path)
\* Mutant: the arena iterator starts one past the first token.
VisitAst_SkipFirst ==
    /\ pc = "start"
    /\ mode = "visit"
    /\ pc' = "sweep"
    /\ index' = 1
    /\ calls' = Append(calls, Len(log))
    /\ UNCHANGED <<tokens, shared, nodes, other, mode, vis, stack, log, names, stopped>>

\* Mutant: the arena iterator is kept between calls and resumes where the
\* previous call left it.
VisitAst_Resumes ==
    /\ pc = "start"
    /\ mode = "visit"
    /\ pc' = "sweep"
    /\ calls' = Append(calls, Len(log))
    /\ UNCHANGED <<tokens, shared, nodes, other, mode, vis, index, stack, log, names, stopped>>

\* fn visit_ast(&mut self, ast: &Ast): the call; the iterator 0..len over
\* the arena is made, a local of this call
VisitAst ==
    /\ pc = "start"
    /\ mode = "visit"
    /\ pc' = "sweep"
    /\ index' = 0
    /\ calls' = Append(calls, Len(log))
    /\ UNCHANGED <<tokens, shared, nodes, other, mode, vis, stack, log, names, stopped>>

\* one round of the loop over the arena: a borrowed reference is built for
\* the index and visited
SweepVisit ==
    /\ pc = "sweep"
    /\ mode = "visit"
    /\ index < Len(tokens)
    /\ LET ref == Borrowed(index)
           hook == TokenHook(TokenOf(tokens, ref).kind)
       IN  /\ log' = Append(log, Entry(hook, 1, <<>>, ref, TokenOf(tokens, ref), ref))
           /\ names' = Collect(hook, ref)
           /\ stopped' = Stops(hook)
    /\ index' = index + 1
    /\ UNCHANGED <<tokens, shared, nodes, other, mode, vis, pc, stack, calls>>

\* Mutant: visit_ast returns after the loop, without visiting the root.
VisitNodes_Skip ==
    /\ pc = "sweep"
    /\ mode = "visit"
    /\ index = Len(tokens)
    /\ pc' = "done"
    /\ UNCHANGED <<tokens, shared, nodes, other, mode, vis, index, stack, log, names, stopped, calls>>

\* Mutant: the root is visited before the loop over the arena.
VisitNodes_Early ==
    /\ pc = "sweep"
    /\ mode = "visit"
    /\ index = 0
    /\ pc' = "descent"
    /\ stack' = <<[path |-> <<>>, i |-> 0, t |-> "node"]>>
    /\ UNCHANGED <<tokens, shared, nodes, other, mode, vis, index, log, names, stopped, calls>>

\* the loop is over: ast.nodes().visit(self)
VisitNodes ==
    /\ pc = "sweep"
    /\ mode = "visit"
    /\ index = Len(tokens)
    /\ pc' = "descent"
    /\ stack' = <<[path |-> <<>>, i |-> 0, t |-> "node"]>>
    /\ UNCHANGED <<tokens, shared, nodes, other, mode, vis, index, log, names, stopped, calls>>

\* a node's visit: the enter hook
NodeEnter ==
    /\ InDescent("visit", "node")
    /\ Top.i = 0
    /\ LET hook == NodeHook(Cur.kind)
       IN  /\ log' = Append(log, Entry(hook, 2, Top.path, Cur, NoToken, Cur))
           /\ names' = Collect(hook, Cur)
           /\ stopped' = Stops(hook)
    /\ stack' = [stack EXCEPT ![Len(stack)].i = 1]
    /\ UNCHANGED <<tokens, shared, nodes, other, mode, vis, pc, index, calls>>

\* a node's visit: the next field, in declaration order
NodeField ==
    /\ InDescent("visit", "node")
    /\ Top.i \in 1..Len(Cur.items)
    /\ stack' = Push(shared, Top.i)
    /\ UNCHANGED <<tokens, shared, nodes, other, mode, vis, pc, index, log, names, stopped, calls>>

\* a node's visit: the exit hook, and the return
NodeExit ==
    /\ InDescent("visit", "node")
    /\ Top.i = Len(Cur.items) + 1
    /\ LET hook == EndHook(Cur.kind)
       IN  /\ log' = Append(log, Entry(hook, 2, Top.path, Cur, NoToken, Cur))
           /\ names' = Collect(hook, Cur)
           /\ stopped' = Stops(hook)
    /\ stack' = Pop
    /\ pc' = Returned(Pop)
    /\ UNCHANGED <<tokens, shared, nodes, other, mode, vis, index, calls>>

\* TokenReference::visit of a token that is a field
TokenVisit ==
    /\ InDescent("visit", "tok")
    /\ LET hook == TokenHook(TokenOf(tokens, Cur).kind)
       IN  /\ log' = Append(log, Entry(hook, 2, Top.path, Cur, TokenOf(tokens, Cur), Cur))
           /\ names' = Collect(hook, Cur)
           /\ stopped' = Stops(hook)
    /\ stack' = Pop
    /\ pc' = Returned(Pop)
    /\ UNCHANGED <<tokens, shared, nodes, other, mode, vis, index, calls>>

\* the element visited next by a container whose call is on top, or its
\* return once every element has been visited
Each(sh) == IF Top.i <= Len(Cur.items) THEN Push(sh, Top.i) ELSE Pop

\* Mutant: the loop stops one element short.
VecVisit_SkipLast ==
    /\ InDescent("visit", "vec")
    /\ stack' = IF Top.i < Len(Cur.items) THEN Push(shared, Top.i) ELSE Pop
    /\ UNCHANGED <<tokens, shared, nodes, other, mode, vis, pc, index, log, names, stopped, calls>>

\* Mutant: the loop runs from the last element to the first.
VecVisit_Reverse ==
    /\ InDescent("visit", "vec")
    /\ stack' = IF Top.i <= Len(Cur.items)
                THEN Push(shared, Len(Cur.items) + 1 - Top.i)
                ELSE Pop
    /\ UNCHANGED <<tokens, shared, nodes, other, mode, vis, pc, index, log, names, stopped, calls>>

\* Mutant: the loop ends once the visitor has set its flag.
VecVisit_Stops ==
    /\ InDescent("visit", "vec")
    /\ stack' = IF stopped THEN Pop ELSE Each(shared)
    /\ UNCHANGED <<tokens, shared, nodes, other, mode, vis, pc, index, log, names, stopped, calls>>

\* impl Visit for Vec<T>: for item in self { item.visit(visitor) }
VecVisit ==
    /\ InDescent("visit", "vec")
    /\ stack' = Each(shared)
    /\ UNCHANGED <<tokens, shared, nodes, other, mode, vis, pc, index, log, names, stopped, calls>>

\* Mutant: a present value is not visited.
OptionVisit_Skips ==
    /\ InDescent("visit", "opt")
    /\ stack' = Pop
    /\ UNCHANGED <<tokens, shared, nodes, other, mode, vis, pc, index, log, names, stopped, calls>>

\* impl Visit for Option<T>: if let Some(item) = self { item.visit(visitor) }
OptionVisit ==
    /\ InDescent("visit", "opt")
    /\ stack' = Each(shared)
    /\ UNCHANGED <<tokens, shared, nodes, other, mode, vis, pc, index, log, names, stopped, calls>>

\* Mutant: the second component is visited before the first.
PairVisit_Swapped ==
    /\ InDescent("visit", "pair")
    /\ stack' = IF Top.i <= Len(Cur.items)
                THEN Push(shared, Len(Cur.items) + 1 - Top.i)
                ELSE Pop
    /\ UNCHANGED <<tokens, shared, nodes, other, mode, vis, pc, index, log, names, stopped, calls>>

\* impl Visit for (A, B): self.0.visit(visitor); self.1.visit(visitor)
PairVisit ==
    /\ InDescent("visit", "pair")
    /\ stack' = Each(shared)
    /\ UNCHANGED <<tokens, shared, nodes, other, mode, vis, pc, index, log, names, stopped, calls>>

\* Mutant: the read-only path takes a private copy of the payload first.
CowVisit_Copies ==
    /\ InDescent("visit", "cow")
    /\ IF Top.i = 1
       THEN /\ nodes' = Store(shared, nodes, Top.path,
                              IF Cur.n >= 0 THEN CowOwned(shared[Cur.n + 1]) ELSE Cur).v
            /\ shared' = Store(shared, nodes, Top.path,
                               IF Cur.n >= 0 THEN CowOwned(shared[Cur.n + 1]) ELSE Cur).sh
            /\ stack' = Push(shared, 1)
       ELSE /\ nodes' = nodes
            /\ shared' = shared
            /\ stack' = Pop
    /\ UNCHANGED <<tokens, other, mode, vis, pc, index, log, names, stopped, calls>>

\* impl Visit for Cow<T>: (**self).visit(visitor), no copy
CowVisit ==
    /\ InDescent("visit", "cow")
    /\ stack' = IF Top.i = 1 THEN Push(shared, 1) ELSE Pop
    /\ UNCHANGED <<tokens, shared, nodes, other, mode, vis, pc, index, log, names, stopped, calls>>

\* impl Visit for Box<T>: (**self).visit(visitor)
BoxVisit ==
    /\ InDescent("visit", "box")
    /\ stack' = Each(shared)
    /\ UNCHANGED <<tokens, shared, nodes, other, mode, vis, pc, index, log, names, stopped, calls>>

\* ------------------------------------------------ VisitorMut (mutating path)
\* fn visit_ast(&mut self, ast: &mut Ast)
VisitAstMut ==
    /\ pc = "start"
    /\ mode = "visit_mut"
    /\ pc' = "sweep"
    /\ index' = 0
    /\ calls' = Append(calls, Len(log))
    /\ UNCHANGED <<tokens, shared, nodes, other, mode, vis, stack, log, names, stopped>>

\* Mutant: what the hook leaves in the reference is written to the arena.
SweepVisitMut_WritesArena ==
    /\ pc = "sweep"
    /\ mode = "visit_mut"
    /\ index < Len(tokens)
    /\ LET ref == Borrowed(index)
           hook == TokenHook(TokenOf(tokens, ref).kind)
           out == HookMut(vis, hook, ref)
       IN  /\ log' = Append(log, Entry(hook, 1, <<>>, ref, TokenOf(tokens, ref), out))
           /\ tokens' = [tokens EXCEPT ![index + 1] = TokenOf(tokens, out)]
    /\ index' = index + 1
    /\ UNCHANGED <<shared, nodes, other, mode, vis, pc, stack, names, stopped, calls>>

\* one round of the loop: the hook is handed a temporary reference, which is
\* dropped at the end of the statement
SweepVisitMut ==
    /\ pc = "sweep"
    /\ mode = "visit_mut"
    /\ index < Len(tokens)
    /\ LET ref == Borrowed(index)
           hook == TokenHook(TokenOf(tokens, ref).kind)
       IN  log' = Append(log, Entry(hook, 1, <<>>, ref, TokenOf(tokens, ref),
                                 HookMut(vis, hook, ref)))
    /\ index' = index + 1
    /\ UNCHANGED <<tokens, shared, nodes, other, mode, vis, pc, stack, names, stopped, calls>>

\* the loop is over: ast.nodes_mut().visit_mut(self)
VisitNodesMut ==
    /\ pc = "sweep"
    /\ mode = "visit_mut"
    /\ index = Len(tokens)
    /\ pc' = "descent"
    /\ stack' = <<[path |-> <<>>, i |-> 0, t |-> "node"]>>
    /\ UNCHANGED <<tokens, shared, nodes, other, mode, vis, index, log, names, stopped, calls>>

NodeEnterMut ==
    /\ InDescent("visit_mut", "node")
    /\ Top.i = 0
    /\ LET hook == NodeHook(Cur.kind)
           out == HookMut(vis, hook, Cur)
       IN  /\ log' = Append(log, Entry(hook, 2, Top.path, Cur, NoToken, out))
           /\ nodes' = Store(shared, nodes, Top.path, out).v
           /\ shared' = Store(shared, nodes, Top.path, out).sh
    /\ stack' = [stack EXCEPT ![Len(stack)].i = 1]
    /\ UNCHANGED <<tokens, other, mode, vis, pc, index, names, stopped, calls>>

NodeFieldMut ==
    /\ InDescent("visit_mut", "node")
    /\ Top.i \in 1..Len(Cur.items)
    /\ stack' = Push(shared, Top.i)
    /\ UNCHANGED <<tokens, shared, nodes, other, mode, vis, pc, index, log, names, stopped, calls>>

NodeExitMut ==
    /\ InDescent("visit_mut", "node")
    /\ Top.i = Len(Cur.items) + 1
    /\ LET hook == EndHook(Cur.kind)
           out == HookMut(vis, hook, Cur)
       IN  /\ log' = Append(log, Entry(hook, 2, Top.path, Cur, NoToken, out))
           /\ nodes' = Store(shared, nodes, Top.path, out).v
           /\ shared' = Store(shared, nodes, Top.path, out).sh
    /\ stack' = Pop
    /\ pc' = Returned(Pop)
    /\ UNCHANGED <<tokens, other, mode, vis, index, names, stopped, calls>>

\* TokenReference::visit_mut of a token that is a field: the hook is handed
\* the field itself
TokenVisitMut ==
    /\ InDescent("visit_mut", "tok")
    /\ LET hook == TokenHook(TokenOf(tokens, Cur).kind)
           out == HookMut(vis, hook, Cur)
       IN  /\ log' = Append(log, Entry(hook, 2, Top.path, Cur, TokenOf(tokens, Cur), out))
           /\ nodes' = Store(shared, nodes, Top.path, out).v
           /\ shared' = Store(shared, nodes, Top.path, out).sh
    /\ stack' = Pop
    /\ pc' = Returned(Pop)
    /\ UNCHANGED <<tokens, other, mode, vis, index, names, stopped, calls>>

\* Mutant: the loop runs over the elements the vector had before the call.
VecVisitMut_Stale ==
    /\ InDescent("visit_mut", "vec")
    /\ LET n == IF ValidPath(shared, other, Top.path)
                THEN Min(Len(GetAt(shared, other, Top.path).items), Len(Cur.items))
                ELSE Len(Cur.items)
       IN  stack' = IF Top.i <= n THEN Push(shared, Top.i) ELSE Pop
    /\ UNCHANGED <<tokens, shared, nodes, other, mode, vis, pc, index, log, names, stopped, calls>>

\* impl VisitMut for Vec<T>
VecVisitMut ==
    /\ InDescent("visit_mut", "vec")
    /\ stack' = Each(shared)
    /\ UNCHANGED <<tokens, shared, nodes, other, mode, vis, pc, index, log, names, stopped, calls>>

\* impl VisitMut for Option<T>
OptionVisitMut ==
    /\ InDescent("visit_mut", "opt")
    /\ stack' = Each(shared)
    /\ UNCHANGED <<tokens, shared, nodes, other, mode, vis, pc, index, log, names, stopped, calls>>

\* impl VisitMut for (A, B)
PairVisitMut ==
    /\ InDescent("visit_mut", "pair")
    /\ stack' = Each(shared)
    /\ UNCHANGED <<tokens, shared, nodes, other, mode, vis, pc, index, log, names, stopped, calls>>

\* Cow::to_mut: a borrowed value is replaced by an owned clone of its
\* payload; the payload itself is left as it is
ToMut(sh, c) == IF c.n >= 0 THEN CowOwned(sh[c.n + 1]) ELSE c

\* Mutant: the payload is visited in place, without to_mut.
CowVisitMut_Alias ==
    /\ InDescent("visit_mut", "cow")
    /\ stack' = IF Top.i = 1 THEN Push(shared, 1) ELSE Pop
    /\ UNCHANGED <<tokens, shared, nodes, other, mode, vis, pc, index, log, names, stopped, calls>>

\* impl VisitMut for Cow<T>: self.to_mut().visit_mut(visitor)
CowVisitMut ==
    /\ InDescent("visit_mut", "cow")
    /\ IF Top.i = 1
       THEN /\ nodes' = Store(shared, nodes, Top.path, ToMut(shared, Cur)).v
            /\ shared' = Store(shared, nodes, Top.path, ToMut(shared, Cur)).sh
            /\ stack' = Push(shared, 1)
       ELSE /\ nodes' = nodes
            /\ shared' = shared
            /\ stack' = Pop
    /\ UNCHANGED <<tokens, other, mode, vis, pc, index, log, names, stopped, calls>>

\* Mutant: the mutating path does not forward to the boxed value.
BoxVisitMut_Skips ==
    /\ InDescent("visit_mut", "box")
    /\ stack' = Pop
    /\ UNCHANGED <<tokens, shared, nodes, other, mode, vis, pc, index, log, names, stopped, calls>>

\* impl VisitMut for Box<T>
BoxVisitMut ==
    /\ InDescent("visit_mut", "box")
    /\ stack' = Each(shared)
    /\ UNCHANGED <<tokens, shared, nodes, other, mode, vis, pc, index, log, names, stopped, calls>>

\* ------------------------------------------------------------ specification
Next ==
    \/ VisitAst \/ SweepVisit \/ VisitNodes
    \/ NodeEnter \/ NodeField \/ NodeExit \/ TokenVisit
    \/ VecVisit \/ OptionVisit \/ PairVisit \/ CowVisit \/ BoxVisit
    \/ VisitAstMut \/ SweepVisitMut \/ VisitNodesMut
    \/ NodeEnterMut \/ NodeFieldMut \/ NodeExitMut \/ TokenVisitMut
    \/ VecVisitMut \/ OptionVisitMut \/ PairVisitMut \/ CowVisitMut \/ BoxVisitMut

Spec == Init /\ [][Next]_vars

\* visit_ast is one synchronous call: a step that can be taken is taken.
SpecFair == Spec /\ WF_vars(Next)

\* ------------------------------------------------------- a hook that panics
\* What a hook that panicked left: nothing, it did not return.
Panicked == Val("panic", "", "", -1, <<>>)

\* the driver is about to invoke a hook
HookDue ==
    \/ pc = "sweep" /\ index < Len(tokens)
    \/ /\ pc = "descent"
       /\ stack # <<>>
       /\ \/ Top.t = "tok"
          \/ Top.t = "node" /\ Top.i \in {0, Len(Cur.items) + 1}

\* the invocation that is due, of a hook that panics
DueEntry ==
    IF pc = "sweep"
    THEN Entry(TokenHook(TokenOf(tokens, Borrowed(index)).kind), 1, <<>>,
               Borrowed(index), TokenOf(tokens, Borrowed(index)), Panicked)
    ELSE IF Top.t = "tok"
    THEN Entry(TokenHook(TokenOf(tokens, Cur).kind), 2, Top.path, Cur,
               TokenOf(tokens, Cur), Panicked)
    ELSE Entry(IF Top.i = 0 THEN NodeHook(Cur.kind) ELSE EndHook(Cur.kind), 2,
               Top.path, Cur, NoToken, Panicked)

RECURSIVE PendingExits(_)
\* exit invocations for the entered nodes among the calls fr, innermost first
PendingExits(fr) ==
    IF fr = <<>> THEN <<>>
    ELSE LET f == fr[Len(fr)]
             v == GetAt(shared, nodes, f.path)
         IN  (IF f.t = "node" /\ f.i >= 1
              THEN <<Entry(EndHook(v.kind), 2, f.path, v, NoToken, v)>>
              ELSE <<>>) \o PendingExits(SubSeq(fr, 1, Len(fr) - 1))

\* Mutant: while the panic unwinds, the pending calls of entered nodes
\* invoke their exit hooks (as a drop guard would).
HookPanics_RunsExits ==
    /\ HookDue
    /\ log' = Append(log, DueEntry) \o PendingExits(stack)
    /\ pc' = "panicked"
    /\ stack' = <<>>
    /\ UNCHANGED <<tokens, shared, nodes, other, mode, vis, index, names, stopped, calls>>

\* The hook that is due panics.  Nothing between the hook and the caller of
\* visit_ast catches the unwind: every pending visit / visit_mut call and
\* visit_ast itself are left at once, and no statement of them runs.
HookPanics ==
    /\ HookDue
    /\ log' = Append(log, DueEntry)
    /\ pc' = "panicked"
    /\ stack' = <<>>
    /\ UNCHANGED <<tokens, shared, nodes, other, mode, vis, index, names, stopped, calls>>

NextPanic == Next \/ HookPanics

SpecPanic == Init /\ [][NextPanic]_vars

\* ------------------------------------------------------------ a second call
\* Calls of visit_ast a caller makes on one tree.
MaxCalls == 2

\* visit_ast has returned and the caller runs the same read-only visitor
\* over the same tree again: visitor.visit_ast(&ast)
VisitAgain ==
    /\ pc = "done"
    /\ mode = "visit"
    /\ Len(calls) < MaxCalls
    /\ pc' = "start"
    /\ UNCHANGED <<tokens, shared, nodes, other, mode, vis, index, stack, log, names,
                   stopped, calls>>

NextTwice == Next \/ VisitAgain

SpecTwice == Init /\ [][NextTwice]_vars

\* ================================================================== claims
Last == log[Len(log)]
Pass1 == SelectSeq(log, LAMBDA e : e.pass = 1)
Pass2 == SelectSeq(log, LAMBDA e : e.pass = 2)
Count(h) == Cardinality({j \in 1..Len(log) : log[j].hook = h})
CountIn(hs) == Cardinality({j \in 1..Len(log) : log[j].hook \in hs})

\* C1: the sweep of visit_ast (Visitor and VisitorMut) builds a borrowed
\* reference for every arena index 0..N-1 exactly once, in strictly
\* increasing order, and dispatches each to the hook of its token's kind:
\* the k-th sweep invocation is for index k-1, the sweep never goes beyond
\* the arena, and it has covered the whole arena when the descent starts.
C1_SweepEveryIndexOnce ==
    LET sweep == Pass1
    IN  /\ \A k \in 1..Len(sweep) :
             /\ k <= Len(tokens)
             /\ sweep[k].arg = Borrowed(k - 1)
             /\ sweep[k].tok = tokens[k]
             /\ sweep[k].hook = TokenHook(tokens[k].kind)
        /\ pc = "sweep" => Len(sweep) = index
        /\ pc \in {"descent", "done"} => Len(sweep) = Len(tokens)

C1_Witness ==
    /\ pc = "done"
    /\ mode = "visit"
    /\ Len(tokens) >= 8
    /\ Len(Pass1) = Len(tokens)
    /\ Pass1[Len(tokens)].hook = "visit_eof"

\* C2: in one visit_ast call every hook invocation of the sweep comes
\* before the first hook invocation of the descent, which is the enter hook
\* of the root block; no sweep invocation follows a descent invocation.
C2_SweepBeforeDescent ==
    /\ \A j \in 1..Len(log) : (log[j].pass = 1) <=> (j <= Len(tokens))
    /\ pc \in {"start", "sweep"} => stack = <<>> /\ Pass2 = <<>>
    /\ Len(log) > Len(tokens) =>
         /\ log[Len(tokens) + 1].hook = "visit_block"
         /\ log[Len(tokens) + 1].path = <<>>

C2_Witness ==
    /\ pc = "done"
    /\ mode = "visit"
    /\ Len(Pass1) >= 8
    /\ Len(Pass2) >= 8

\* C3: every node kind's enter hook and exit hook are invoked the same
\* number of times over a complete traversal, and each node instance (a
\* place in the tree) is entered exactly once, before it is exited exactly
\* once by the exit hook of the same kind; the nodes entered and not yet
\* exited are the nodes whose visit is pending.
Enters(p) ==
    {j \in 1..Len(log) : log[j].pass = 2 /\ log[j].hook \in NodeHooks /\ log[j].path = p}
Exits(p) ==
    {j \in 1..Len(log) : log[j].pass = 2 /\ log[j].hook \in EndHooks /\ log[j].path = p}
Pending ==
    {k \in 1..Len(stack) :
        stack[k].t = "node" /\ stack[k].i >= 1}

C3_EnterExitPaired ==
    /\ \A h \in NodeHooks :
         LET ends == Count(h \o "_end")
             begins == Count(h)
         IN  /\ ends <= begins
             /\ pc = "done" => ends = begins
    /\ CountIn(NodeHooks) - CountIn(EndHooks) = Cardinality(Pending)
    /\ (log # <<>> /\ Last.hook \in NodeHooks) =>
         /\ Enters(Last.path) = {Len(log)}
         /\ Exits(Last.path) = {}
    /\ (log # <<>> /\ Last.hook \in EndHooks) =>
         /\ Exits(Last.path) = {Len(log)}
         /\ \E i \in 1..(Len(log) - 1) :
              /\ Enters(Last.path) = {i}
              /\ log[i].hook \o "_end" = Last.hook

C3_Witness ==
    /\ pc = "done"
    /\ mode = "visit_mut"
    /\ Count("visit_do") = 1
    /\ Count("visit_do_end") = 1
    /\ Count("visit_local_assignment") = 1
    /\ Count("visit_local_assignment_end") = 1
    /\ Count("visit_block_end") = 2

\* What a value holds, whoever holds it: a token reference is its token
\* (borrowed or owned), a Cow is its payload (borrowed or owned).
RECURSIVE Content(_, _, _)
Content(sh, arena, v) ==
    IF v.t = "tok"
    THEN Owned(TokenOf(arena, v).kind, TokenOf(arena, v).text)
    ELSE IF v.t = "cow"
    THEN Content(sh, arena, Child(sh, v, 1))
    ELSE [v EXCEPT !.items = [k \in 1..Len(v.items) |-> Content(sh, arena, v.items[k])]]

\* The hooks a read-only descent of v invokes, in order, with the token each
\* token hook is shown.
RECURSIVE HookSeq(_, _, _)
RECURSIVE HookSeqFrom(_, _, _, _)
HookSeqFrom(sh, arena, v, k) ==
    IF k > Arity(v) THEN <<>>
    ELSE HookSeq(sh, arena, Child(sh, v, k)) \o HookSeqFrom(sh, arena, v, k + 1)
HookSeq(sh, arena, v) ==
    IF v.t = "tok"
    THEN <<[hook |-> TokenHook(TokenOf(arena, v).kind), tok |-> TokenOf(arena, v)]>>
    ELSE IF v.t = "node"
    THEN <<[hook |-> NodeHook(v.kind), tok |-> NoToken]>>
            \o HookSeqFrom(sh, arena, v, 1)
            \o <<[hook |-> NodeHook(v.kind) \o "_end", tok |-> NoToken]>>
    ELSE HookSeqFrom(sh, arena, v, 1)

\* C4: copy-on-write law.  The clone shares every statement payload with
\* the tree being visited; no step of VisitorMut::visit_ast over the tree
\* changes what the clone holds (its nodes and tokens) nor the hook
\* sequence a later read-only traversal of the clone produces.
C4_CopyOnWrite ==
    [][mode = "visit_mut" =>
         /\ Content(shared', tokens', other') = Content(shared, tokens, other)
         /\ HookSeq(shared', tokens', other') = HookSeq(shared, tokens, other)]_vars

\* the visited tree was rewritten below a statement it shared with the clone
C4_Witness ==
    /\ pc = "done"
    /\ mode = "visit_mut"
    /\ other.items[1].items # <<>>
    /\ other.items[1].items[1].items[1].n >= 0
    /\ nodes.items[1].items # <<>>
    /\ nodes.items[1].items[1].items[1].n = -1
    /\ Content(shared, tokens, nodes.items[1].items[1])
         # Content(shared, tokens, other.items[1].items[1])

\* C5: no step of Visitor::visit_ast changes the tree: the arena, the
\* shared payloads, the root node with every field and token reference are
\* after the step what they were before it (no Cow is copied either), so
\* the tree's content is the same and it is still equal to its clone.
C5_ReadOnlyUnchanged ==
    [][mode = "visit" =>
         /\ tokens' = tokens
         /\ shared' = shared
         /\ nodes' = nodes
         /\ nodes' = other
         /\ Content(shared', tokens', nodes') = Content(shared, tokens, nodes)]_vars

C5_Witness ==
    /\ pc = "done"
    /\ mode = "visit"
    /\ nodes = other
    /\ Count("visit_local_assignment_end") >= 1
    /\ Count("visit_do_end") >= 1

\* C6: in VisitorMut::visit_ast the sweep leaves the tree as it was before
\* the call, whatever its hooks did to the references they were handed: the
\* descent starts from the original tree; a token hook of the descent whose
\* place exists in the original tree is handed the original reference, and
\* what a sweep hook was shown still resolves to the same token afterwards.
C6_PassesIsolated ==
    mode = "visit_mut" =>
      /\ pc \in {"start", "sweep"} => nodes = other
      /\ Len(log) > Len(tokens) => log[Len(tokens) + 1].arg = other
      /\ \A k \in 1..Len(log) :
           log[k].pass = 1 => TokenOf(tokens, log[k].arg) = log[k].tok
      /\ (log # <<>> /\ Last.pass = 2 /\ Last.hook \in TokenHooks
            /\ ValidPath(shared, other, Last.path)) =>
           Last.arg = GetAt(shared, other, Last.path)

\* a sweep hook rewrote the reference it was handed, and the descent's hook
\* for the same token was handed the original reference
C6_Witness ==
    /\ mode = "visit_mut"
    /\ log # <<>>
    /\ Last.pass = 2
    /\ Last.hook = "visit_identifier"
    /\ Last.arg.n >= 0
    /\ Last.out # Last.arg
    /\ Pass1[Last.arg.n + 1].out # Pass1[Last.arg.n + 1].arg
    /\ Pass1[Last.arg.n + 1].arg = Last.arg

\* ------------------------------------------------------------------- C7
IsProperPrefix(p, q) == Len(p) < Len(q) /\ SubSeq(q, 1, Len(p)) = p
Rel(p, q) == SubSeq(q, Len(p) + 1, Len(q))

\* enter hooks of the nodes around the place of invocation j
Encl(j) ==
    {i \in 1..(j - 1) :
        /\ log[i].pass = 2
        /\ log[i].hook \in NodeHooks
        /\ IsProperPrefix(log[i].path, log[j].path)}
\* the innermost of them
ParentOf(j) ==
    CHOOSE i \in Encl(j) : \A k \in Encl(j) : Len(log[k].path) <= Len(log[i].path)

RECURSIVE Near(_, _, _)
\* places of the nearest nodes and tokens at or below v, v being at prefix
Near(sh, v, prefix) ==
    IF v.t \in {"node", "tok"} THEN {prefix}
    ELSE UNION {Near(sh, Child(sh, v, k), prefix \o <<k>>) : k \in 1..Arity(v)}
\* places, relative to node v, of its nearest descendants that have hooks
HookPaths(sh, v) ==
    UNION {Near(sh, Child(sh, v, k), <<k>>) : k \in 1..Arity(v)}

\* invocations after enter i that ended the visit of a nearest descendant
\* of the node that the last invocation exits
Kids(i) ==
    {j \in (i + 1)..(Len(log) - 1) :
        /\ log[j].hook \notin NodeHooks
        /\ IsProperPrefix(Last.path, log[j].path)
        /\ Rel(Last.path, log[j].path) \in HookPaths(shared, Last.arg)}

\* C7: in the descent every enter hook and token hook is handed what the
\* enter hook of the innermost enclosing node left at that place, so the
\* children visited are those of the rewritten node; the exit hook is handed
\* the node with the fields its enter hook left, every nearest descendant of
\* it has been visited exactly at its place, and at each such place the node
\* holds what that descendant's last hook left there.
C7_RewriteIsDescended ==
    (log # <<>> /\ Last.pass = 2) =>
      /\ (Last.hook \notin EndHooks /\ Encl(Len(log)) # {}) =>
           LET e == log[ParentOf(Len(log))]
           IN  /\ ValidPath(shared, e.out, Rel(e.path, Last.path))
               /\ Last.arg = GetAt(shared, e.out, Rel(e.path, Last.path))
      /\ Last.hook \in EndHooks =>
           \A i \in Enters(Last.path) :
             /\ HookPaths(shared, Last.arg) = HookPaths(shared, log[i].out)
             /\ {Rel(Last.path, log[j].path) : j \in Kids(i)}
                  = HookPaths(shared, Last.arg)
             /\ \A j \in Kids(i) :
                  GetAt(shared, Last.arg, Rel(Last.path, log[j].path)) = log[j].out

\* the enter hook added a name, the descent visited and renamed it, and the
\* exit hook was handed the list with the renamed names
C7_Witness ==
    /\ mode = "visit_mut"
    /\ log # <<>>
    /\ Last.hook = "visit_local_assignment_end"
    /\ \E i \in Enters(Last.path) :
         /\ log[i].out # log[i].arg
         /\ Len(Last.arg.items[2].items) = Len(log[i].arg.items[2].items) + 1
    /\ \E j \in 1..Len(log) :
         /\ log[j].hook = "visit_identifier"
         /\ log[j].arg = Owned("Identifier", "extra")
         /\ log[j].out = Owned("Identifier", "renamed")
    /\ \A k \in 1..Len(Last.arg.items[2].items) :
         Last.arg.items[2].items[k] = Owned("Identifier", "renamed")

\* ------------------------------------------------------------- scenarios
\* the tree of `local x = 1`
LocalX ==
    tokens = <<Token("Symbol", "local"), Ws, Token("Identifier", "x"), Ws,
               Token("Symbol", "="), Ws, Token("Number", "1"), Token("Eof", "")>>
\* the tree of the empty source
OnlyEof == tokens = <<Token("Eof", "")>>

Idents == {j \in 1..Len(log) : log[j].hook = "visit_identifier"}

\* C8 as stated: over `local x = 1` a complete visit_ast invokes the
\* local-assignment enter hook once and the identifier hook once, with "x".
C8_OneIdentifierCall ==
    (LocalX /\ mode = "visit" /\ pc = "done") =>
      /\ Count("visit_local_assignment") = 1
      /\ Cardinality(Idents) = 1
      /\ \A j \in Idents : log[j].tok.text = "x"

\* C8, amended: over `local x = 1` a complete visit_ast invokes the
\* local-assignment enter hook exactly once and the identifier hook exactly
\* twice, once in the sweep and once in the descent (x is a field of the
\* local assignment), each time with the token "x" of arena index 2.
C8_TwoIdentifierCalls ==
    (LocalX /\ mode = "visit" /\ pc = "done") =>
      /\ Count("visit_local_assignment") = 1
      /\ Cardinality(Idents) = 2
      /\ Cardinality({j \in Idents : log[j].pass = 1}) = 1
      /\ Cardinality({j \in Idents : log[j].pass = 2}) = 1
      /\ \A j \in Idents :
           /\ log[j].tok = Token("Identifier", "x")
           /\ log[j].arg = Borrowed(2)

C8_Witness ==
    /\ LocalX
    /\ mode = "visit"
    /\ pc = "done"
    /\ Count("visit_local_assignment") = 1

\* C9 as stated: over the empty source a complete visit_ast invokes one
\* token hook in all, visit_eof, and no enter or exit hook of any node kind.
C9_NoNodeHook ==
    (OnlyEof /\ pc = "done") =>
      /\ CountIn(TokenHooks) = 1
      /\ Count("visit_eof") = 1
      /\ CountIn(NodeHooks \cup EndHooks) = 0

\* C9, amended: over the empty source a complete visit_ast invokes one
\* token hook in all, visit_eof, and then the enter hook and the exit hook
\* of the root block, which is empty; no other hook is invoked.
C9_EofThenRootBlock ==
    (OnlyEof /\ pc = "done") =>
      /\ Len(log) = 3
      /\ log[1].hook = "visit_eof"
      /\ log[1].arg = Borrowed(0)
      /\ log[2].hook = "visit_block"
      /\ log[2].arg = BlockNode(<<>>)
      /\ log[3].hook = "visit_block_end"
      /\ CountIn(TokenHooks) = 1

C9_Witness ==
    /\ OnlyEof
    /\ pc = "done"
    /\ mode = "visit"
    /\ nodes = BlockNode(<<>>)

\* C10: the name-collecting visitor of the documentation collects every
\* declared local name exactly once, in source order: its names are at any
\* time the first identifiers of the arena, and all of them at the end; the
\* local-assignment enter hook is invoked once per `local` statement, in
\* the order of the statements in the source.
IdentTexts ==
    LET ids == SelectSeq(tokens, LAMBDA t : t.kind = "Identifier")
    IN  [k \in 1..Len(ids) |-> ids[k].text]
Locals == SelectSeq(log, LAMBDA e : e.hook = "visit_local_assignment")

C10_NamesInSourceOrder ==
    (mode = "visit" /\ vis = NoOverride) =>
      LET ids == IdentTexts
          las == Locals
      IN  /\ Len(names) <= Len(ids)
          /\ names = SubSeq(ids, 1, Len(names))
          /\ Cardinality({names[k] : k \in 1..Len(names)}) = Len(names)
          /\ \A k \in 1..Len(las) :
               /\ tokens[las[k].arg.items[1].n + 1] = Token("Symbol", "local")
               /\ k > 1 => las[k - 1].arg.items[1].n < las[k].arg.items[1].n
          /\ pc = "done" =>
               /\ names = ids
               /\ Len(las)
                    = Len(SelectSeq(tokens, LAMBDA t : t = Token("Symbol", "local")))

C10_Witness ==
    /\ mode = "visit"
    /\ vis = NoOverride
    /\ pc = "done"
    /\ names = <<"x", "y", "z">>
    /\ Len(Locals) = 2

\* ------------------------------------------------------------------ C11
\* statement slots of the root block
RootStmts(v) == v.items[1].items
\* a hook of the descent wrote at or below the place p
WroteBelow(p) ==
    \E j \in 1..Len(log) :
      /\ log[j].pass = 2
      /\ log[j].out # log[j].arg
      /\ (log[j].path = p \/ IsProperPrefix(p, log[j].path))

\* C11 as stated: after VisitorMut::visit_ast every statement of the root
\* block that the tree held shared (Cow::Borrowed) before the call, and
\* inside which no hook wrote, is still shared: the tree holds the same
\* borrowed Cow as its clone, not a private owned copy.
C11_CopiedOnlyOnWrite ==
    (mode = "visit_mut" /\ pc = "done") =>
      \A k \in 1..Min(Len(RootStmts(nodes)), Len(RootStmts(other))) :
        (RootStmts(other)[k].items[1].n >= 0 /\ ~WroteBelow(<<1, k, 1>>)) =>
          RootStmts(nodes)[k].items[1] = RootStmts(other)[k].items[1]

\* ------------------------------------------------------------------ C12
\* the hook invocations of the c-th call of visit_ast, so far
Segment(c) ==
    SubSeq(log, calls[c] + 1, IF c < Len(calls) THEN calls[c + 1] ELSE Len(log))

\* C12: the same read-only visitor run again over the same tree is shown
\* the same ordered sequence of hook invocations (hook, pass, place,
\* argument, token) as in its first run: at any time the invocations of a
\* later call are a prefix of those of the first call, and all of them once
\* the call has returned; the tree is then still what it was.
C12_SameSequenceTwice ==
    mode = "visit" =>
      \A c \in 2..Len(calls) :
        LET first == Segment(1)
            this == Segment(c)
        IN  /\ Len(this) <= Len(first)
            /\ this = SubSeq(first, 1, Len(this))
            /\ (pc = "done" \/ c < Len(calls)) =>
                 /\ this = first
                 /\ nodes = other

\* the second call has returned; the visitor's own state differed between
\* the two calls (its names doubled over the second)
C12_Witness ==
    /\ mode = "visit"
    /\ vis = NoOverride
    /\ pc = "done"
    /\ Len(calls) = 2
    /\ calls[2] >= 20
    /\ Len(log) = 2 * calls[2]
    /\ Len(names) = 4

\* ------------------------------------------------------------------ C13
RECURSIVE NodeDepth(_, _)
\* nesting depth: the most nodes on a path from v down to a leaf
NodeDepth(sh, v) ==
    LET below == {NodeDepth(sh, c) : c \in {Child(sh, v, k) : k \in 1..Arity(v)}}
    IN  (IF v.t = "node" THEN 1 ELSE 0)
          + (IF below = {} THEN 0 ELSE CHOOSE m \in below : \A d \in below : d <= m)

\* the sweep invokes at most one hook per arena token and the descent at
\* most one hook of a kind per place of the tree; no more enter hooks are
\* pending than the tree is deep; after the return no call is pending and
\* every entered node has been exited
C13_Bounded ==
    /\ Len(log) <= Len(tokens) \/ log[Len(tokens) + 1].pass = 2
    /\ (log # <<>> /\ Last.pass = 2) =>
         \A j \in 1..(Len(log) - 1) :
           ~(log[j].pass = 2 /\ log[j].path = Last.path /\ log[j].hook = Last.hook)
    /\ Cardinality(Pending) <= NodeDepth(shared, nodes)
    /\ pc = "done" =>
         /\ stack = <<>>
         /\ CountIn(NodeHooks) = CountIn(EndHooks)

Failed == {j \in 1..Len(log) : log[j].out = Panicked}

\* C14: when a hook panics during visit_ast (read-only or mutating, sweep
\* or descent) the failing invocation is the last one: no token hook, enter
\* hook or exit hook follows it (the enter hooks pending around it stay
\* without their exit hooks), no call is left pending, the tree is as the
\* hooks before it left it, and visit_ast takes no further step: it neither
\* resumes nor starts again.
C14_PanicPropagates ==
    /\ [](Failed \subseteq {Len(log)})
    /\ [](pc = "panicked" <=> Failed # {})
    /\ [](pc = "panicked" => stack = <<>>)
    /\ [][pc # "panicked"]_vars
    /\ [][pc' = "panicked" =>
            /\ Len(log') = Len(log) + 1
            /\ nodes' = nodes /\ shared' = shared /\ tokens' = tokens]_vars

\* a number hook panicked below five entered nodes, none of which was exited
C14_Witness ==
    /\ pc = "panicked"
    /\ stack = <<>>
    /\ Last.hook = "visit_number"
    /\ Last.pass = 2
    /\ CountIn(NodeHooks) >= 5
    /\ CountIn(EndHooks) = 0

\* ------------------------------------------------------------------ C15
RECURSIVE Innermost(_, _)
\* What a visitor that pushes on enter and pops on exit has on top of its
\* stack after the invocations 1..j of the descent: the enter invocation of
\* the most recently entered node not yet exited (0 if none), found by
\* walking back over d exits that are still to be matched.
Innermost(j, d) ==
    IF j = 0 \/ log[j].pass # 2 THEN 0
    ELSE IF log[j].hook \in EndHooks THEN Innermost(j - 1, d + 1)
    ELSE IF log[j].hook \in NodeHooks
    THEN (IF d = 0 THEN j ELSE Innermost(j - 1, d - 1))
    ELSE Innermost(j - 1, d)

RECURSIVE NodeAbove(_)
\* the place of the nearest node around the place p (p is not the root)
NodeAbove(p) ==
    LET q == SubSeq(p, 1, Len(p) - 1)
    IN  IF GetAt(shared, nodes, q).t = "node" THEN q ELSE NodeAbove(q)

\* C15: the descent is depth-first and well nested.  An exit hook is
\* always for the most recently entered node not yet exited (a visitor that
\* pushes on enter and pops on exit pops the frame of that very node), with
\* the hook of the same kind, and every invocation since that node's enter
\* is for one of its descendants; an enter hook or token hook is invoked
\* while the most recently entered node not yet exited is the nearest node
\* around its place, so it lies between that node's enter and exit.
C15_WellNested ==
    (log # <<>> /\ Last.pass = 2) =>
      LET m == Innermost(Len(log) - 1, 0)
      IN  /\ Last.hook \in EndHooks =>
                /\ m > 0
                /\ log[m].path = Last.path
                /\ log[m].hook \o "_end" = Last.hook
                /\ \A j \in (m + 1)..(Len(log) - 1) :
                     IsProperPrefix(Last.path, log[j].path)
          /\ Last.hook \notin EndHooks =>
                IF Last.path = <<>> THEN m = 0
                ELSE /\ m > 0
                     /\ log[m].path = NodeAbove(Last.path)
                     /\ IsProperPrefix(log[m].path, Last.path)

\* the exit of a block nested in a do statement, with a local assignment
\* entered and exited inside it
C15_Witness ==
    /\ log # <<>>
    /\ Last.hook = "visit_block_end"
    /\ Last.path # <<>>
    /\ Count("visit_local_assignment_end") = 1
    /\ Innermost(Len(log) - 1, 0) > Len(tokens) + 1
    /\ log[Innermost(Len(log) - 1, 0)].hook = "visit_block"
    /\ Len(log) - Innermost(Len(log) - 1, 0) >= 10

\* ------------------------------------------------------------------ C16
\* token-hook invocations shown the arena token of index k
Seen(k) ==
    Cardinality({j \in 1..Len(log) :
                    log[j].hook \in TokenHooks /\ log[j].arg = Borrowed(k)})

RECURSIVE FieldRefs(_, _)
\* arena indices of the tokens that are fields of the nodes at or below v
FieldRefs(sh, v) ==
    IF v.t = "tok" THEN (IF v.n >= 0 THEN {v.n} ELSE {})
    ELSE UNION {FieldRefs(sh, c) : c \in {Child(sh, v, k) : k \in 1..Arity(v)}}

\* C16: over one complete visit_ast every arena token is shown to a token
\* hook once or twice, never more and never not at all.  In the read-only
\* traversal it is twice exactly for the tokens that are fields of a node
\* of the tree (sweep and descent) and once for every other token (sweep
\* only: whitespace, separators, the end-of-file token).  In the mutating
\* traversal a token shown twice was a field of the tree before the call,
\* and a token that is still a field afterwards was shown twice.
C16_TokenSeenOnceOrTwice ==
    pc = "done" =>
      LET before == FieldRefs(shared, other)
          after == FieldRefs(shared, nodes)
      IN  \A k \in 0..(Len(tokens) - 1) :
            LET n == Seen(k)
            IN  /\ n \in {1, 2}
                /\ mode = "visit" => (n = 2 <=> k \in after)
                /\ mode = "visit_mut" =>
                     /\ n = 2 => k \in before
                     /\ k \in after => n = 2

\* `local x = 1` read-only: local, x, = and 1 twice, the three spaces and
\* the end-of-file token once
C16_Witness ==
    /\ LocalX
    /\ mode = "visit"
    /\ pc = "done"
    /\ \A k \in {0, 2, 4, 6} : Seen(k) = 2
    /\ \A k \in {1, 3, 5, 7} : Seen(k) = 1
    /\ FieldRefs(shared, nodes) = {0, 2, 4, 6}

\* ------------------------------------------------------------------ C17
RECURSIVE LeftOf(_, _, _)
\* from step d on, the place p is not to the right of the place q: at the
\* first step where they part, p takes the earlier field or element (places
\* of which one lies around the other do not part)
LeftOf(p, q, d) ==
    IF d > Len(p) \/ d > Len(q) THEN TRUE
    ELSE IF p[d] = q[d] THEN LeftOf(p, q, d + 1)
    ELSE p[d] < q[d]

\* first hooks (enter or token hook) of the descent at the place p
FirstHooks(p) ==
    {j \in 1..Len(log) :
        log[j].pass = 2 /\ log[j].hook \notin EndHooks /\ log[j].path = p}

\* C17: containers are visited left to right, each content exactly once, in
\* both drivers.  Every hook of the descent is invoked at a place that
\* exists in the tree (none below an absent optional), and no hook invoked
\* before it was at a place to its right: the hooks of element i of a
\* sequence all come before any hook of element i + 1, those of the first
\* component of a pair before any of the second.  When a node is exited,
\* each of its nearest descendants (through sequences, pairs, present
\* optionals, boxes and Cows) has been visited exactly once.
C17_LeftToRightOnce ==
    (log # <<>> /\ Last.pass = 2) =>
      /\ ValidPath(shared, nodes, Last.path)
      /\ \A j \in 1..(Len(log) - 1) :
           log[j].pass = 2 => LeftOf(log[j].path, Last.path, 1)
      /\ Last.hook \in EndHooks =>
           \A r \in HookPaths(shared, Last.arg) :
             Cardinality(FirstHooks(Last.path \o r)) = 1

\* the semicolon after the first statement has just been visited: every
\* hook of the statement (first component of the pair) came before it, and
\* the second statement (next element of the sequence) has no hook yet
C17_Witness ==
    /\ log # <<>>
    /\ Last.pass = 2
    /\ Last.tok = Token("Symbol", ";")
    /\ Last.path = <<1, 1, 2, 1>>
    /\ \E j \in 1..Len(log) :
         log[j].hook = "visit_local_assignment_end" /\ log[j].path = <<1, 1, 1, 1, 1>>
    /\ \A j \in 1..Len(log) :
         log[j].pass = 2 => (log[j].path = <<>> \/ SubSeq(log[j].path, 1, 2) = <<1, 1>>)
    /\ Len(RootStmts(nodes)) = 2

\* ------------------------------------------------------------------ C18
\* what one hook invocation shows: the hook, the place, and the content of
\* the node or token it is handed
Shown(hook, path, what) == [hook |-> hook, path |-> path, what |-> what]

RECURSIVE Walk(_, _, _, _)
RECURSIVE WalkFrom(_, _, _, _, _)
\* The invocations of a descent that follows the tree v (at place path)
\* depth first and left to right, as spec section 4.3 lays it down.
WalkFrom(sh, arena, v, path, k) ==
    IF k > Arity(v) THEN <<>>
    ELSE Walk(sh, arena, Child(sh, v, k), path \o <<k>>)
           \o WalkFrom(sh, arena, v, path, k + 1)
Walk(sh, arena, v, path) ==
    IF v.t = "tok"
    THEN <<Shown(TokenHook(TokenOf(arena, v).kind), path, Content(sh, arena, v))>>
    ELSE IF v.t = "node"
    THEN <<Shown(NodeHook(v.kind), path, Content(sh, arena, v))>>
            \o WalkFrom(sh, arena, v, path, 1)
            \o <<Shown(NodeHook(v.kind) \o "_end", path, Content(sh, arena, v))>>
    ELSE WalkFrom(sh, arena, v, path, 1)

\* the invocations of a sweep over the arena
SweepOf(arena) ==
    [k \in 1..Len(arena) |->
        Shown(TokenHook(arena[k].kind), <<>>, Owned(arena[k].kind, arena[k].text))]

\* what the invocations so far have shown
ShownLog ==
    [j \in 1..Len(log) |->
        Shown(log[j].hook, log[j].path, Content(shared, tokens, log[j].arg))]

\* C18: Visitor::visit_ast and VisitorMut::visit_ast run with a visitor
\* whose hooks change nothing walk the same path: over the same tree each
\* of them has, at its return, made exactly the invocations of one sweep of
\* the arena followed by one depth-first, left-to-right walk of the tree as
\* it was before the call (same hook, same place, same content handed
\* over, same order), and the content of the tree is what it was.
C18_SamePathBothDrivers ==
    (pc = "done" /\ (mode = "visit" \/ vis = NoOverride)) =>
      /\ ShownLog = SweepOf(tokens) \o Walk(shared, tokens, other, <<>>)
      /\ Content(shared, tokens, nodes) = Content(shared, tokens, other)

\* the mutating driver has returned from a tree of two statements, one
\* nested in the other, with a visitor that changes nothing; the tree now
\* owns a copy of its statement and holds the same content
C18_Witness ==
    /\ pc = "done"
    /\ mode = "visit_mut"
    /\ vis = NoOverride
    /\ Count("visit_do") = 1
    /\ Count("visit_local_assignment") = 1
    /\ nodes # other
    /\ Content(shared, tokens, nodes) = Content(shared, tokens, other)

\* ------------------------------------------------------------------ C19
\* the hooks invoked so far, with the token shown to each token hook
Received == [j \in 1..Len(log) |-> [hook |-> log[j].hook, tok |-> log[j].tok]]

\* the hooks that the tree alone calls for: one per arena token, then those
\* of a descent of the tree
CalledFor ==
    [k \in 1..Len(tokens) |-> [hook |-> TokenHook(tokens[k].kind), tok |-> tokens[k]]]
        \o HookSeq(shared, tokens, other)

\* C19: in the read-only traversal the sequence of hook invocations is a
\* function of the tree alone, the same for the name collector and for the
\* visitor that stops itself: at any time the hooks received are the first
\* ones the tree calls for, and all of them at the return.  The stopper,
\* once its flag is set, collects no further name, and still receives every
\* remaining invocation (the later local assignments included).
C19_VisitorCannotSteer ==
    mode = "visit" =>
      LET full == CalledFor
          got == Received
          las == Locals
      IN  /\ Len(got) <= Len(full)
          /\ got = SubSeq(full, 1, Len(got))
          /\ pc = "done" => got = full
          /\ stopped <=> (vis = Stopper /\ las # <<>>)
          /\ stopped => names = NameList(tokens, las[1].arg)

\* the stopper stopped at the first of two local assignments and was still
\* handed the second one, and everything up to the exit of the root block
C19_Witness ==
    /\ mode = "visit"
    /\ vis = Stopper
    /\ pc = "done"
    /\ stopped
    /\ names = <<"x">>
    /\ Len(Locals) = 2
    /\ Last.hook = "visit_block_end"
    /\ Received = CalledFor

====
